---- MODULE Spec2Model ----
(***************************************************************************)
(* A model of the blog's page layout (src/components/MDXLayout.tsx).       *)
(*                                                                         *)
(* One render of Layout for one Document is a small state machine: the     *)
(* Layout function evaluates the head of the page (which may throw), then  *)
(* the MDX content renders its top-level nodes in document order, calling  *)
(* the h1 and CodeBlock overrides Layout passed in `components`.           *)
(*                                                                         *)
(* JavaScript values are tagged records: Undefined, Str(<<chars>>),        *)
(* Obj(...) and Arr(<<items>>).  Strings are sequences of one-character    *)
(* strings so that concatenation, toUpperCase, date parsing and escaping   *)
(* are computed character by character.                                    *)
(***************************************************************************)
EXTENDS Naturals, Sequences, FiniteSets

VARIABLES
    currentPage,   \* currentPage[r]: the Document render r was given
    children,      \* children[r]: the top-level nodes of the MDX content
    pc,            \* pc[r]: "start", "article", "done" or "error"
    head,          \* head[r]: the elements of <head>, once Layout returned
    body,          \* body[r][i]: the elements node i of children[r] rendered to
    calls,         \* calls[r]: each treeSitter.highlight call: the node that
                   \* made it and the arguments it passed
    error,         \* error[r]: the exception that ended the render, or NoError
    pages,         \* the Document collection every component is handed
    nav            \* nav[r]: what Nav returned for render r's current Document

vars == <<currentPage, children, pc, head, body, calls, error, pages, nav>>

\* The number of top-level nodes a document tree has at most.
MaxNodes == 2

\* The number of Documents a collection given to Nav has at most.
MaxPages == 3

-----------------------------------------------------------------------------
(* JavaScript values *)

Undefined == [type |-> "undefined"]

Str(s) == [type |-> "string", val |-> s]

Arr(items) == [type |-> "array", items |-> items]

IsNullish(v) == v = Undefined

\* The abstract operation ToString, on the values the layout concatenates.
ToString(v) ==
    IF v = Undefined THEN <<"u", "n", "d", "e", "f", "i", "n", "e", "d">>
    ELSE v.val

\* v + 'T00:00' and `https://devongovett.me${v}`: string concatenation.
Concat(a, b) == Str(ToString(a) \o ToString(b))

\* A string is falsy exactly when it is empty; undefined is falsy.
IsFalsy(v) == v = Undefined \/ (v.type = "string" /\ v.val = <<>>)

NoError == [name |-> "none"]

\* Reading a property of undefined: the TypeError the engine throws.  Its
\* message names the property, and nothing of the Document.
TypeError(prop) ==
    [name |-> "TypeError", message |-> "Cannot read properties of undefined",
     reading |-> prop]

Ok(v) == [ok |-> TRUE, value |-> v]

Throw(e) == [ok |-> FALSE, error |-> e]

-----------------------------------------------------------------------------
(* String.prototype.toUpperCase, on ASCII *)

LowerLetters ==
    <<"a", "b", "c", "d", "e", "f", "g", "h", "i", "j", "k", "l", "m",
      "n", "o", "p", "q", "r", "s", "t", "u", "v", "w", "x", "y", "z">>

UpperLetters ==
    <<"A", "B", "C", "D", "E", "F", "G", "H", "I", "J", "K", "L", "M",
      "N", "O", "P", "Q", "R", "S", "T", "U", "V", "W", "X", "Y", "Z">>

IndexIn(seq, c) ==
    IF \E i \in DOMAIN seq : seq[i] = c
    THEN CHOOSE i \in DOMAIN seq : seq[i] = c
    ELSE 0

UpperChar(c) ==
    IF IndexIn(LowerLetters, c) > 0 THEN UpperLetters[IndexIn(LowerLetters, c)] ELSE c

\* A toUpperCase that leaves the string as it is.
toUpperCase_Unchanged(s) == s

toUpperCase(s) == [i \in DOMAIN s |-> UpperChar(s[i])]

-----------------------------------------------------------------------------
(* new Date(string) and Date.prototype.toLocaleDateString *)

Digits == <<"0", "1", "2", "3", "4", "5", "6", "7", "8", "9">>

IsDigit(c) == IndexIn(Digits, c) > 0

DigitVal(c) == IndexIn(Digits, c) - 1

RECURSIVE NumVal(_)
NumVal(s) ==
    IF s = <<>> THEN 0
    ELSE 10 * NumVal(SubSeq(s, 1, Len(s) - 1)) + DigitVal(s[Len(s)])

RECURSIVE NumStr(_)
NumStr(n) ==
    IF n < 10 THEN <<Digits[n + 1]>>
    ELSE NumStr(n \div 10) \o <<Digits[(n % 10) + 1]>>

IsLeap(y) == (y % 4 = 0 /\ y % 100 # 0) \/ y % 400 = 0

DaysInMonth(y, m) ==
    IF m = 2 THEN (IF IsLeap(y) THEN 29 ELSE 28)
    ELSE IF m \in {4, 6, 9, 11} THEN 30 ELSE 31

InvalidDate == [valid |-> FALSE]

\* The date-time string format YYYY-MM-DDTHH:mm, read as local time.
IsDateTimeShape(s) ==
    /\ Len(s) = 16
    /\ s[5] = "-" /\ s[8] = "-" /\ s[11] = "T" /\ s[14] = ":"
    /\ \A i \in {1, 2, 3, 4, 6, 7, 9, 10, 12, 13, 15, 16} : IsDigit(s[i])

\* new Date(s).  A string that is no instance of the format (wrong shape or an
\* element out of range) is an Invalid Date.  A day past the end of its month
\* (but at most 31) rolls over into the next month, as MakeDay computes it.
DateParse(s) ==
    IF ~IsDateTimeShape(s) THEN InvalidDate
    ELSE
        LET y == NumVal(SubSeq(s, 1, 4))
            m == NumVal(SubSeq(s, 6, 7))
            d == NumVal(SubSeq(s, 9, 10))
            hh == NumVal(SubSeq(s, 12, 13))
            mm == NumVal(SubSeq(s, 15, 16))
        IN  IF ~(m \in 1..12 /\ d \in 1..31 /\ hh \in 0..24 /\ mm \in 0..59
                 /\ (hh = 24 => mm = 0))
            THEN InvalidDate
            ELSE IF d <= DaysInMonth(y, m)
            THEN [valid |-> TRUE, year |-> y, month |-> m, day |-> d]
            ELSE [valid |-> TRUE, year |-> y, month |-> m + 1,
                  day |-> d - DaysInMonth(y, m)]

\* toLocaleDateString() in the default (en-US) locale: M/D/YYYY, and the
\* text "Invalid Date" for an Invalid Date.  It never throws.
toLocaleDateString(date) ==
    IF ~date.valid
    THEN Str(<<"I", "n", "v", "a", "l", "i", "d", " ", "D", "a", "t", "e">>)
    ELSE Str(NumStr(date.month) \o <<"/">> \o NumStr(date.day) \o <<"/">>
             \o NumStr(date.year))

-----------------------------------------------------------------------------
(* The tree-sitter-highlight package: treeSitter.Language and                *)
(* treeSitter.highlight.  The package is imported, not part of the source;   *)
(* it is modelled from sections 4.1 and 4.2 of the specification.            *)

\* The keys of the Language enumeration object: upper-case grammar names.
LanguageNames ==
    { <<"J", "S">>, <<"J", "S", "X">>, <<"T", "S">>, <<"T", "S", "X">>,
      <<"D", "O", "T">> }

Grammar(name) == [type |-> "language", name |-> name]

\* treeSitter.Language[key]: a property read; undefined for a key the
\* enumeration does not have.
Language(key) ==
    IF key.val \in LanguageNames THEN Grammar(key.val) ELSE Undefined

IsLetter(c) == IndexIn(LowerLetters, c) > 0 \/ IndexIn(UpperLetters, c) > 0

CharClass(c) ==
    IF IsLetter(c) THEN "word"
    ELSE IF IsDigit(c) THEN "number"
    ELSE IF c \in {"<", ">", "&", "-", "="} THEN "operator"
    ELSE "other"

\* The categories a grammar gives a run of characters of one class.
Categories(language, class) ==
    IF class = "number" THEN <<"number">>
    ELSE IF class = "operator" THEN <<"operator">>
    ELSE IF class = "word" /\ language.name # <<"D", "O", "T">> THEN <<"variable">>
    ELSE <<>>

\* lex: maximal runs of characters of one class, in source order.
RECURSIVE LexFrom(_, _, _)
LexFrom(code, language, i) ==
    IF i > Len(code) THEN <<>>
    ELSE
        LET class == CharClass(code[i])
            stop == CHOOSE j \in i..Len(code) :
                        /\ \A k \in i..j : CharClass(code[k]) = class
                        /\ (j = Len(code) \/ CharClass(code[j + 1]) # class)
        IN  <<[text |-> SubSeq(code, i, stop),
               categories |-> Categories(language, class)]>>
            \o LexFrom(code, language, stop + 1)

Lex(code, language) == LexFrom(code, language, 1)

EscapeChar(c) ==
    IF c = "<" THEN <<"&", "l", "t", ";">>
    ELSE IF c = ">" THEN <<"&", "g", "t", ";">>
    ELSE IF c = "&" THEN <<"&", "a", "m", "p", ";">>
    ELSE <<c>>

RECURSIVE Escape(_)
Escape(text) ==
    IF text = <<>> THEN <<>> ELSE EscapeChar(Head(text)) \o Escape(Tail(text))

\* render: one span per token, its text escaped; a token without categories
\* is plain text (a span record with no class).
Render(tokens) ==
    [i \in DOMAIN tokens |->
        [class |-> tokens[i].categories, text |-> Escape(tokens[i].text)]]

\* What a call treeSitter.highlight(code, language) can do.  With a grammar of
\* the enumeration it returns the markup.  With undefined in the place of the
\* grammar (a value outside the declared parameter type) the native binding
\* either rejects the argument with an exception or coerces it to the first
\* member of the enumeration, JS.
HighlightOutcomes(code, language) ==
    IF language = Undefined
    THEN { Throw([name |-> "Error", message |-> "invalid language argument"]),
           Ok(Render(Lex(code.val, Grammar(<<"J", "S">>)))) }
    ELSE { Ok(Render(Lex(code.val, language))) }

\* The text the browser shows for escaped text: entities decoded.
RECURSIVE Unescape(_)
Unescape(text) ==
    IF text = <<>> THEN <<>>
    ELSE IF Len(text) >= 4 /\ SubSeq(text, 1, 4) = <<"&", "l", "t", ";">>
    THEN <<"<">> \o Unescape(SubSeq(text, 5, Len(text)))
    ELSE IF Len(text) >= 4 /\ SubSeq(text, 1, 4) = <<"&", "g", "t", ";">>
    THEN <<">">> \o Unescape(SubSeq(text, 5, Len(text)))
    ELSE IF Len(text) >= 5 /\ SubSeq(text, 1, 5) = <<"&", "a", "m", "p", ";">>
    THEN <<"&">> \o Unescape(SubSeq(text, 6, Len(text)))
    ELSE <<Head(text)>> \o Unescape(Tail(text))

\* The text content of highlighted markup: the spans' texts in order.
RECURSIVE TextContent(_)
TextContent(markup) ==
    IF markup = <<>> THEN <<>>
    ELSE Unescape(Head(markup).text) \o TextContent(Tail(markup))

-----------------------------------------------------------------------------
(* Layout: the head of the page *)

Meta(attr, key, content) ==
    [tag |-> "meta", attr |-> attr, key |-> key, content |-> content]

Origin ==
    <<"h", "t", "t", "p", "s", ":", "/", "/", "d", "e", "v", "o", "n",
      "g", "o", "v", "e", "t", "t", ".", "m", "e">>

\* A lookup guarded at every step, which reads an empty table as an absent one.
TitleLookup_Guarded(page) ==
    IF IsNullish(page.tableOfContents) THEN Ok(Undefined)
    ELSE IF Len(page.tableOfContents.items) = 0 THEN Ok(Undefined)
    ELSE Ok(page.tableOfContents.items[1].title)

\* currentPage.tableOfContents?.[0].title: undefined when there is no table
\* of contents; otherwise the element at index 0 is read and its title taken,
\* which throws when the table is empty.
TitleLookup(page) ==
    IF IsNullish(page.tableOfContents) THEN Ok(Undefined)
    ELSE IF Len(page.tableOfContents.items) = 0 THEN Throw(TypeError("title"))
    ELSE Ok(page.tableOfContents.items[1].title)

\* currentPage?.exports?.description
ExportsDescription(page) ==
    IF IsNullish(page.exports) THEN Undefined ELSE page.exports.description

\* currentPage.exports?.date
ExportsDate(page) ==
    IF IsNullish(page.exports) THEN Undefined ELSE page.exports.date

\* A head whose social-card url is that of the first Document of the
\* collection.
HeadElements_UrlOfFirstPage(page) ==
    LET t == TitleLookup(page)
    IN  IF ~t.ok THEN t
        ELSE Ok(<<
            Meta("charSet", "", Str(<<"u", "t", "f", "-", "8">>)),
            Meta("name", "viewport", Str(<<"w">>)),
            [tag |-> "title", children |-> t.value],
            Meta("name", "description", ExportsDescription(page)),
            Meta("property", "og:title", t.value),
            Meta("property", "og:description", ExportsDescription(page)),
            Meta("property", "og:url", Concat(Str(Origin), pages.items[1].url)),
            Meta("name", "twitter:card", Str(<<"s">>)),
            Meta("name", "twitter:site", Str(<<"@">>)) >>)

\* A head whose social-card title prefers exports.title to the title looked up.
HeadElements_CardTitleFromExports(page) ==
    LET t == TitleLookup(page)
    IN  IF ~t.ok THEN t
        ELSE Ok(<<
            Meta("charSet", "", Str(<<"u", "t", "f", "-", "8">>)),
            Meta("name", "viewport", Str(<<"w">>)),
            [tag |-> "title", children |-> t.value],
            Meta("name", "description", ExportsDescription(page)),
            Meta("property", "og:title",
                 IF IsNullish(page.exports) \/ IsNullish(page.exports.title)
                 THEN t.value ELSE page.exports.title),
            Meta("property", "og:description", ExportsDescription(page)),
            Meta("property", "og:url", Concat(Str(Origin), page.url)),
            Meta("name", "twitter:card", Str(<<"s">>)),
            Meta("name", "twitter:site", Str(<<"@">>)) >>)

\* The children of <head>, in source order; the first title lookup that
\* throws ends the call.
HeadElements(page) ==
    LET t == TitleLookup(page)
    IN  IF ~t.ok THEN t
        ELSE Ok(<<
            Meta("charSet", "", Str(<<"u", "t", "f", "-", "8">>)),
            Meta("name", "viewport", Str(<<"w">>)),
            [tag |-> "title", children |-> t.value],
            Meta("name", "description", ExportsDescription(page)),
            Meta("property", "og:title", t.value),
            Meta("property", "og:description", ExportsDescription(page)),
            Meta("property", "og:url", Concat(Str(Origin), page.url)),
            Meta("name", "twitter:card", Str(<<"s">>)),
            Meta("name", "twitter:site", Str(<<"@">>)) >>)

-----------------------------------------------------------------------------
(* Layout: the component overrides handed to the MDX content *)

TimeSuffix == Str(<<"T", "0", "0", ":", "0", "0">>)

\* components.h1: the heading, then a <time> for the Document's date.
H1Override(page, props) ==
    << [tag |-> "h1", props |-> props],
       [tag |-> "time",
        dateTime |-> ExportsDate(page),
        children |-> toLocaleDateString(
                         DateParse(Concat(ExportsDate(page), TimeSuffix).val))] >>

\* props.lang?.toUpperCase() || 'JS'
LanguageKey(props) ==
    LET upper == IF IsNullish(props.lang) THEN Undefined
                 ELSE Str(toUpperCase(props.lang.val))
    IN  IF IsFalsy(upper) THEN Str(<<"J", "S">>) ELSE upper

\* The arguments of the call treeSitter.highlight(..) in components.CodeBlock.
HighlightArgs(props) ==
    [code |-> props.children, language |-> Language(LanguageKey(props))]

\* A CodeBlock that assigns the <code> element to props.children.
PropsAfterSpread_Assigned(props, markup) ==
    [props EXCEPT !.children = [tag |-> "code", html |-> markup]]

\* The props object of the code block after <pre {...props}>: the spread
\* copies its properties into the props of the new element and writes
\* nothing to it.
PropsAfterSpread(props, markup) == props

\* A CodeBlock that inserts the source text itself as the inner markup.
CodeBlockOverride_RawText(props, markup) ==
    << [tag |-> "pre",
        props |-> [props EXCEPT !.children =
                      [tag |-> "code",
                       html |-> <<[class |-> <<>>, text |-> props.children.val]>>]]] >>

\* A CodeBlock whose <pre> does not carry the language tag.
CodeBlockOverride_NoLang(props, markup) ==
    << [tag |-> "pre",
        props |-> [props EXCEPT !.lang = Undefined,
                                !.children = [tag |-> "code", html |-> markup]]] >>

\* components.CodeBlock, given what highlight returned: <pre {...props}> with
\* the <code> element, whose inner markup is that result, as its child.
CodeBlockOverride(props, markup) ==
    << [tag |-> "pre",
        props |-> [props EXCEPT !.children = [tag |-> "code", html |-> markup]]] >>

-----------------------------------------------------------------------------
(* The inputs of a render *)

Intro == Str(<<"I", "n", "t", "r", "o">>)

Names == { Str(<<>>), Str(<<"d", "r", "a", "f", "t", "-", "1">>) }

Urls == { Str(<<"/", "b", "l", "o", "g", "/", "a">>), Str(<<"/", "a">>) }

ExportTitles == { Undefined, Str(<<"T">>) }

ExportDescriptions == { Undefined, Str(<<"D">>) }

\* A calendar date, a string with month 13, and no date at all.
ExportDates ==
    { Undefined,
      Str(<<"2", "0", "2", "5", "-", "0", "7", "-", "2", "6">>),
      Str(<<"2", "0", "2", "5", "-", "1", "3", "-", "0", "1">>) }

Exports ==
    {Undefined} \cup
    [type : {"object"}, title : ExportTitles, description : ExportDescriptions,
     date : ExportDates]

TocEntry(title) == [title |-> title, level |-> "h1"]

TablesOfContents ==
    { Undefined, Arr(<<>>), Arr(<<TocEntry(Intro)>>) }

Pages ==
    [url : Urls, name : Names, exports : Exports, tableOfContents : TablesOfContents]

LangTags ==
    { Undefined, Str(<<"j", "s">>), Str(<<"J", "S">>), Str(<<"d", "o", "t">>),
      Str(<<"f", "o", "o">>) }

SourceTexts == { Str(<<"a", "-", ">", "b", "<", "1", "&">>) }

Nodes ==
    { [kind |-> "h1", props |-> [children |-> Intro]],
      [kind |-> "p", props |-> [children |-> Str(<<"t">>)]] }
    \cup
    { [kind |-> "CodeBlock", props |-> [lang |-> l, children |-> t]] :
        l \in LangTags, t \in SourceTexts }

Trees == UNION { [1..n -> Nodes] : n \in 0..MaxNodes }

-----------------------------------------------------------------------------
(* The render of one Document *)

Renders == DOMAIN pc

NextNode(r) == children[r][Len(body[r]) + 1]

HasNextNode(r) == pc[r] = "article" /\ Len(body[r]) < Len(children[r])

Fail(r, e) ==
    /\ pc' = [pc EXCEPT ![r] = "error"]
    /\ error' = [error EXCEPT ![r] = e]

NavPending == [status |-> "pending"]

\* The renders rs = 1..n start; the collection holds their Documents.
InitRenders(rs) ==
    /\ currentPage \in [rs -> Pages]
    /\ children \in [rs -> Trees]
    /\ pages = Arr([r \in rs |-> currentPage[r]])
    /\ nav = [r \in rs |-> NavPending]
    /\ pc = [r \in rs |-> "start"]
    /\ head = [r \in rs |-> <<>>]
    /\ body = [r \in rs |-> <<>>]
    /\ calls = [r \in rs |-> <<>>]
    /\ error = [r \in rs |-> NoError]

Init == InitRenders({1})

\* A Layout that builds the head from the Document the collection holds
\* under the current url, and fails when it holds none.
Layout_FromCollection(r) ==
    /\ pc[r] = "start"
    /\ LET found == { i \in DOMAIN pages.items :
                        pages.items[i].url = currentPage[r].url }
           h == IF found = {} THEN Throw(TypeError("tableOfContents"))
                ELSE HeadElements(
                         pages.items[CHOOSE i \in found : \A j \in found : i <= j])
       IN  IF h.ok
           THEN /\ head' = [head EXCEPT ![r] = h.value]
                /\ pc' = [pc EXCEPT ![r] = "article"]
                /\ UNCHANGED error
           ELSE /\ Fail(r, h.error)
                /\ UNCHANGED head
    /\ UNCHANGED <<currentPage, children, body, calls, pages, nav>>

\* The call Layout({children, pages, currentPage}): the JSX of the page is
\* evaluated, head first.
Layout(r) ==
    /\ pc[r] = "start"
    /\ LET h == HeadElements(currentPage[r])
       IN  IF h.ok
           THEN /\ head' = [head EXCEPT ![r] = h.value]
                /\ pc' = [pc EXCEPT ![r] = "article"]
                /\ UNCHANGED error
           ELSE /\ Fail(r, h.error)
                /\ UNCHANGED head
    /\ UNCHANGED <<currentPage, children, body, calls, pages, nav>>

\* An h1 override that reads the Document from a variable shared by all
\* renders, which holds the Document of the first one.
RenderH1_SharedPage(r) ==
    /\ HasNextNode(r)
    /\ NextNode(r).kind = "h1"
    /\ body' = [body EXCEPT ![r] =
                   Append(@, H1Override(currentPage[1], NextNode(r).props))]
    /\ UNCHANGED <<currentPage, children, pc, head, calls, error, pages, nav>>

\* The content renders a top-level heading through components.h1.
RenderH1(r) ==
    /\ HasNextNode(r)
    /\ NextNode(r).kind = "h1"
    /\ body' = [body EXCEPT ![r] =
                   Append(@, H1Override(currentPage[r], NextNode(r).props))]
    /\ UNCHANGED <<currentPage, children, pc, head, calls, error, pages, nav>>

\* The content renders a code block through components.CodeBlock.
RenderCodeBlock(r) ==
    /\ HasNextNode(r)
    /\ NextNode(r).kind = "CodeBlock"
    /\ LET props == NextNode(r).props
           args == HighlightArgs(props)
       IN  /\ calls' = [calls EXCEPT ![r] =
                            Append(@, [at |-> Len(body[r]) + 1, code |-> args.code,
                                       language |-> args.language])]
           /\ \E res \in HighlightOutcomes(args.code, args.language) :
                 IF res.ok
                 THEN /\ body' = [body EXCEPT ![r] =
                                     Append(@, CodeBlockOverride(props, res.value))]
                      /\ children' = [children EXCEPT ![r][Len(body[r]) + 1].props =
                                         PropsAfterSpread(props, res.value)]
                      /\ UNCHANGED <<pc, error>>
                 ELSE /\ Fail(r, res.error)
                      /\ UNCHANGED <<body, children>>
    /\ UNCHANGED <<currentPage, head, pages, nav>>

RECURSIVE RenderNode(_, _)

\* Nested nodes rendered last to first.
RenderChildren_Reversed(page, items) ==
    [i \in DOMAIN items |-> RenderNode(page, items[Len(items) + 1 - i])]

\* The nodes nested in a node render in the order the content wrote them.
RenderChildren(page, items) ==
    [i \in DOMAIN items |-> RenderNode(page, items[i])]

\* A node below the top level: a heading goes through components.h1, any
\* other node keeps its tag and props, with the nodes nested in it rendered.
RenderNode(page, node) ==
    IF node.kind = "h1" THEN H1Override(page, node.props)
    ELSE IF node.props.children.type = "array"
    THEN << [tag |-> node.kind,
             props |-> [node.props EXCEPT
                           !.children = Arr(RenderChildren(page, @.items))]] >>
    ELSE << [tag |-> node.kind, props |-> node.props] >>

\* Any other node renders as the content wrote it: no override applies to it,
\* and the nodes nested in it are rendered in turn.
RenderOther(r) ==
    /\ HasNextNode(r)
    /\ NextNode(r).kind \notin {"h1", "CodeBlock"}
    /\ body' = [body EXCEPT ![r] = Append(@, RenderNode(currentPage[r], NextNode(r)))]
    /\ UNCHANGED <<currentPage, children, pc, head, calls, error, pages, nav>>

\* A completion that demands a heading to decorate and fails without one.
Complete_HeadingRequired(r) ==
    /\ pc[r] = "article"
    /\ Len(body[r]) = Len(children[r])
    /\ IF \E i \in DOMAIN children[r] : children[r][i].kind = "h1"
       THEN pc' = [pc EXCEPT ![r] = "done"] /\ UNCHANGED error
       ELSE Fail(r, [name |-> "Error", message |-> "no heading"])
    /\ UNCHANGED <<currentPage, children, head, body, calls, pages, nav>>

\* The content has rendered its last node: the page structure is complete.
Complete(r) ==
    /\ pc[r] = "article"
    /\ Len(body[r]) = Len(children[r])
    /\ pc' = [pc EXCEPT ![r] = "done"]
    /\ UNCHANGED <<currentPage, children, head, body, calls, error, pages, nav>>

Next ==
    \/ \E r \in Renders : Layout(r)
    \/ \E r \in Renders : RenderH1(r)
    \/ \E r \in Renders : RenderCodeBlock(r)
    \/ \E r \in Renders : RenderOther(r)
    \/ \E r \in Renders : Complete(r)

Spec == Init /\ [][Next]_vars

-----------------------------------------------------------------------------
(* What the claims speak of *)

\* The elements of <head> with a given tag / a given name or property.
HeadWithTag(r, tag) == { i \in DOMAIN head[r] : head[r][i].tag = tag }

HeadMetas(r, key) ==
    { i \in DOMAIN head[r] : head[r][i].tag = "meta" /\ head[r][i].key = key }

\* Layout has returned the page structure of render r.
Composed(r) == pc[r] \in {"article", "done"}

\* The <time> elements of the body: <<node, position in the node's output>>.
TimeElements(r) ==
    { <<i, j>> \in (DOMAIN body[r]) \X (1..2) :
        j <= Len(body[r][i]) /\ body[r][i][j].tag = "time" }

H1Nodes(r) == { i \in DOMAIN children[r] : children[r][i].kind = "h1" }

CodeBlockNodes(r) == { i \in DOMAIN children[r] : children[r][i].kind = "CodeBlock" }

ExportsTitle(page) ==
    IF page.exports = Undefined THEN Undefined ELSE page.exports.title

OutlineEmpty(page) ==
    page.tableOfContents = Undefined \/ page.tableOfContents.items = <<>>

\* The fallback chain of the data model: exports.title, outline[0].title, name.
ChainTitle(page) ==
    IF ExportsTitle(page) # Undefined THEN ExportsTitle(page)
    ELSE IF ~OutlineEmpty(page) THEN page.tableOfContents.items[1].title
    ELSE page.name

Unresolvable(page) ==
    ExportsTitle(page) = Undefined /\ OutlineEmpty(page) /\ page.name = Str(<<>>)

LowerChar(c) ==
    IF IndexIn(UpperLetters, c) > 0 THEN LowerLetters[IndexIn(UpperLetters, c)] ELSE c

\* Two tags differ at most in letter case.
SameButCase(a, b) ==
    /\ Len(a) = Len(b)
    /\ \A i \in DOMAIN a : LowerChar(a[i]) = LowerChar(b[i])

\* The grammar the registry of section 4.1 gives a tag: the one whose name the
\* tag matches without regard to case, the default JS otherwise.
KnownTag(tag) ==
    tag # Undefined /\ \E n \in LanguageNames : SameButCase(tag.val, n)

RegistryGrammar(tag) ==
    IF KnownTag(tag)
    THEN Grammar(CHOOSE n \in LanguageNames : SameButCase(tag.val, n))
    ELSE Grammar(<<"J", "S">>)

\* A string in the form YYYY-MM-DD that names a day of the calendar.
IsCalendarDate(v) ==
    /\ v # Undefined
    /\ Len(v.val) = 10
    /\ v.val[5] = "-" /\ v.val[8] = "-"
    /\ \A i \in {1, 2, 3, 4, 6, 7, 9, 10} : IsDigit(v.val[i])
    /\ NumVal(SubSeq(v.val, 6, 7)) \in 1..12
    /\ NumVal(SubSeq(v.val, 9, 10)) \in
           1..DaysInMonth(NumVal(SubSeq(v.val, 1, 4)), NumVal(SubSeq(v.val, 6, 7)))

-----------------------------------------------------------------------------
(* The claims *)

\* C1: in every render that Layout has been called for, the title tag and the
\* social-card title carry the display title of the fallback chain
\* exports.title, outline[0].title, name (for a Document the chain resolves).
C1_TitleFallbackChain ==
    \A r \in Renders :
        (pc[r] # "start" /\ ~Unresolvable(currentPage[r])) =>
            /\ \E i \in HeadWithTag(r, "title") :
                   head[r][i].children = ChainTitle(currentPage[r])
            /\ \E i \in HeadMetas(r, "og:title") :
                   head[r][i].content = ChainTitle(currentPage[r])

\* C2: a Document with no exports.title, an empty outline and an empty name
\* never gets a head; its render ends in an error that carries the
\* Document's url.
C2_UnresolvableTitleReported ==
    \A r \in Renders :
        (pc[r] # "start" /\ Unresolvable(currentPage[r])) =>
            /\ pc[r] = "error"
            /\ "url" \in DOMAIN error[r]
            /\ error[r].url = currentPage[r].url

\* C3: a composed page of a Document without exports.description has no
\* description tag and no social-card description tag.
C3_NoDescriptionTag ==
    \A r \in Renders :
        (Composed(r) /\ ExportsDescription(currentPage[r]) = Undefined) =>
            HeadMetas(r, "description") \cup HeadMetas(r, "og:description") = {}

\* C4: the body of a Document without exports.date holds no time element.
C4_NoDateElementWithoutDate ==
    \A r \in Renders :
        ExportsDate(currentPage[r]) = Undefined => TimeElements(r) = {}

\* C5: a code block whose tag is absent or not in the registry is highlighted
\* with the default grammar JS, and the highlight call does not fail.
C5_UnknownTagFallsBack ==
    \A r \in Renders : \A k \in DOMAIN calls[r] :
        ~KnownTag(children[r][calls[r][k].at].props.lang) =>
            /\ calls[r][k].language = Grammar(<<"J", "S">>)
            /\ calls[r][k].at \in DOMAIN body[r]

\* C6: two code blocks of a render whose tags differ only in letter case are
\* highlighted with the same grammar.
C6_TagMatchIgnoresCase ==
    \A r \in Renders : \A j, k \in DOMAIN calls[r] :
        LET a == children[r][calls[r][j].at].props.lang
            b == children[r][calls[r][k].at].props.lang
        IN  (a # Undefined /\ b # Undefined /\ SameButCase(a.val, b.val)) =>
                calls[r][j].language = calls[r][k].language

\* C6 witness: tags "js" and "JS" in one render, both highlighted as JS.
C6_Witness ==
    \E r \in Renders : \E j, k \in DOMAIN calls[r] :
        /\ children[r][calls[r][j].at].props.lang = Str(<<"j", "s">>)
        /\ children[r][calls[r][k].at].props.lang = Str(<<"J", "S">>)
        /\ calls[r][j].language = Grammar(<<"J", "S">>)
        /\ calls[r][k].language = Grammar(<<"J", "S">>)

C8_RoundTrip ==
    \A r \in Renders : \A k \in DOMAIN calls[r] :
        LET i == calls[r][k].at
        IN  /\ i \in DOMAIN body[r]
            /\ TextContent(body[r][i][1].props.children.html)
                   = children[r][i].props.children.val

\* C9: with an exports.date that is no calendar date the render does not
\* fail for it and the body holds no time element.
C9_MalformedDateOmitted ==
    \A r \in Renders :
        (ExportsDate(currentPage[r]) # Undefined
         /\ ~IsCalendarDate(ExportsDate(currentPage[r]))) =>
            TimeElements(r) = {}

\* C10: a finished render of a Document with a date and at least one
\* top-level heading has exactly one time element, right after the first
\* top-level heading.
C10_OneDateElement ==
    \A r \in Renders :
        (pc[r] = "done" /\ IsCalendarDate(ExportsDate(currentPage[r]))
         /\ H1Nodes(r) # {}) =>
            LET first == CHOOSE i \in H1Nodes(r) : \A j \in H1Nodes(r) : i <= j
            IN  TimeElements(r) = {<<first, 2>>}

\* C11: a composed page has a title tag and a social-card title tag only with
\* a title in them: no such tag is emitted with an undefined title.
C11_NoEmptyTitleTag ==
    \A r \in Renders :
        Composed(r) =>
            /\ \A i \in HeadWithTag(r, "title") : head[r][i].children # Undefined
            /\ \A i \in HeadMetas(r, "og:title") : head[r][i].content # Undefined

-----------------------------------------------------------------------------
(* Nav: the navigation list (the component at the end of src/page.css) *)

BlogPrefix == <<"/", "b", "l", "o", "g">>

\* String.prototype.startsWith
startsWith(s, prefix) ==
    Len(s) >= Len(prefix) /\ SubSeq(s, 1, Len(prefix)) = prefix

\* A filter that lets every page pass.
IsBlogPage_Any(p) == TRUE

\* p => p.url.startsWith('/blog')
IsBlogPage(p) == startsWith(p.url.val, BlogPrefix)

\* pages.filter(p => p.url.startsWith('/blog')): the elements that pass, in
\* order, in a new array.
RECURSIVE FilterBlog(_)
FilterBlog(seq) ==
    IF seq = <<>> THEN <<>>
    ELSE IF IsBlogPage(Head(seq)) THEN <<Head(seq)>> \o FilterBlog(Tail(seq))
    ELSE FilterBlog(Tail(seq))

\* The collation order of the characters of a date string: the hyphen sorts
\* before the digits, the digits by value.
CollationKey(c) == IF c = "-" THEN 0 ELSE IndexIn(Digits, c)

\* String.prototype.localeCompare on such strings: negative, zero or positive
\* as s sorts before, with or after t.
RECURSIVE localeCompare(_, _)
localeCompare(s, t) ==
    IF s = <<>> /\ t = <<>> THEN 0
    ELSE IF s = <<>> THEN 0 - 1
    ELSE IF t = <<>> THEN 1
    ELSE IF CollationKey(Head(s)) < CollationKey(Head(t)) THEN 0 - 1
    ELSE IF CollationKey(Head(s)) > CollationKey(Head(t)) THEN 1
    ELSE localeCompare(Tail(s), Tail(t))

\* A comparator that puts the earlier date first.
CompareDates_Ascending(a, b) ==
    localeCompare(a.exports.date.val, b.exports.date.val)

\* (a, b) => b.exports!.date.localeCompare(a.exports!.date)
CompareDates(a, b) ==
    localeCompare(b.exports.date.val, a.exports.date.val)

\* Array.prototype.sort with that comparator: the sort is stable, so x goes
\* behind every element that does not sort after it.
RECURSIVE InsertSorted(_, _)
InsertSorted(sorted, x) ==
    IF sorted = <<>> THEN <<x>>
    ELSE IF CompareDates(Head(sorted), x) <= 0
    THEN <<Head(sorted)>> \o InsertSorted(Tail(sorted), x)
    ELSE <<x>> \o sorted

RECURSIVE SortByDate(_)
SortByDate(seq) ==
    IF seq = <<>> THEN <<>>
    ELSE InsertSorted(SortByDate(SubSeq(seq, 1, Len(seq) - 1)), seq[Len(seq)])

Permutations(seq) ==
    { [i \in DOMAIN seq |-> seq[f[i]]] :
        f \in { g \in [DOMAIN seq -> DOMAIN seq] :
                  \A i, j \in DOMAIN seq : g[i] = g[j] => i = j } }

\* What .sort(comparator) can do to the filtered array.  The comparator is
\* not called for fewer than two elements.  It reads exports.date of both
\* arguments, so an element without exports throws.  With exports but no
\* date, the element throws when it is the receiver of localeCompare and is
\* compared as the text "undefined" when it is the argument: which of the two
\* happens, and the order that results, is up to the engine's algorithm.
SortOutcomes(seq) ==
    IF Len(seq) < 2 THEN { Ok(seq) }
    ELSE IF \E i \in DOMAIN seq : IsNullish(seq[i].exports)
    THEN { Throw(TypeError("date")) }
    ELSE IF \E i \in DOMAIN seq : IsNullish(seq[i].exports.date)
    THEN { Throw(TypeError("localeCompare")) }
         \cup { Ok(perm) : perm \in Permutations(seq) }
    ELSE { Ok(SortByDate(seq)) }

\* page.exports?.title ?? page.tableOfContents?.[0].title ?? page.name
NavTitle(page) ==
    LET exported == IF IsNullish(page.exports) THEN Undefined ELSE page.exports.title
        first == TitleLookup(page)
    IN  IF ~IsNullish(exported) THEN Ok(exported)
        ELSE IF ~first.ok THEN first
        ELSE IF ~IsNullish(first.value) THEN first
        ELSE Ok(page.name)

\* An aria-current that is set on every entry.
AriaCurrent_Always(page, current) == Str(<<"p", "a", "g", "e">>)

\* page.url === currentPage.url ? 'page' : undefined
AriaCurrent(page, current) ==
    IF page.url = current.url THEN Str(<<"p", "a", "g", "e">>) ELSE Undefined

\* The <li> of one page.
NavEntry(page, current) ==
    [tag |-> "li",
     key |-> page.url,
     href |-> page.url,
     ariaCurrent |-> AriaCurrent(page, current),
     title |-> NavTitle(page).value,
     dateTime |-> ExportsDate(page),
     date |-> toLocaleDateString(DateParse(Concat(ExportsDate(page), TimeSuffix).val)),
     description |-> ExportsDescription(page)]

\* pages.filter(..).sort(..).map(..), given the sorted array.
NavEntries(sorted, current) ==
    IF \E i \in DOMAIN sorted : ~NavTitle(sorted[i]).ok
    THEN Throw(TypeError("title"))
    ELSE Ok([i \in DOMAIN sorted |-> NavEntry(sorted[i], current)])

\* The call Nav({pages, currentPage}).
Nav(r) ==
    /\ nav[r] = NavPending
    /\ \E sorted \in SortOutcomes(FilterBlog(pages.items)) :
          LET entries == IF sorted.ok THEN NavEntries(sorted.value, currentPage[r])
                         ELSE sorted
          IN  nav' = [nav EXCEPT ![r] =
                         IF entries.ok
                         THEN [status |-> "done", entries |-> entries.value]
                         ELSE [status |-> "error", error |-> entries.error]]
    /\ UNCHANGED <<currentPage, children, pc, head, body, calls, error, pages>>

\* The inputs of Nav: Documents with one of the dates below or none, under
\* the blog prefix or outside it, in collections without a repeated url.
NavUrls ==
    { Str(<<"/", "b", "l", "o", "g", "/", "a">>),
      Str(<<"/", "b", "l", "o", "g", "/", "b">>),
      Str(<<"/", "b", "l", "o", "g", "/", "c">>),
      Str(<<"/", "a">>) }

NavDates ==
    { Undefined,
      Str(<<"2", "0", "2", "5", "-", "0", "1", "-", "0", "1">>),
      Str(<<"2", "0", "2", "5", "-", "0", "6", "-", "1", "5">>),
      Str(<<"2", "0", "2", "4", "-", "1", "2", "-", "3", "1">>) }

NavPages ==
    [url : NavUrls,
     name : {Str(<<"n">>)},
     exports : {Undefined} \cup
               [type : {"object"}, title : {Undefined}, description : {Undefined},
                date : NavDates],
     tableOfContents : {Arr(<<TocEntry(Intro)>>)}]

Collections ==
    { c \in UNION { [1..n -> NavPages] : n \in 1..MaxPages } :
        \A i, j \in DOMAIN c : c[i].url = c[j].url => i = j }

InitNav ==
    /\ \E c \in Collections :
          /\ pages = Arr(c)
          /\ \E i \in DOMAIN c : currentPage = <<c[i]>>
    /\ children = << <<>> >>
    /\ nav = <<NavPending>>
    /\ pc = <<"start">>
    /\ head = << <<>> >>
    /\ body = << <<>> >>
    /\ calls = << <<>> >>
    /\ error = <<NoError>>

NextNav == \E r \in Renders : Nav(r)

SpecNav == InitNav /\ [][NextNav]_vars

-----------------------------------------------------------------------------
(* The claims about Nav *)

NavDone(r) == nav[r].status = "done"

\* The url lies under the collection prefix /blog.
UnderBlog(url) ==
    /\ Len(url.val) >= Len(BlogPrefix)
    /\ \A i \in DOMAIN BlogPrefix : url.val[i] = BlogPrefix[i]

EligiblePages == { i \in DOMAIN pages.items : UnderBlog(pages.items[i].url) }

\* The day a date string names, as a number that grows with time.
DateOrdinal(v) ==
    NumVal(SubSeq(v.val, 1, 4)) * 10000 + NumVal(SubSeq(v.val, 6, 7)) * 100
        + NumVal(SubSeq(v.val, 9, 10))

AllEligibleDated ==
    \A i \in EligiblePages :
        /\ pages.items[i].exports # Undefined
        /\ IsCalendarDate(pages.items[i].exports.date)

\* C12: when every eligible Document has a date, the list Nav returns holds
\* each eligible Document once, the most recent date first.
C12_NavSortedByDate ==
    \A r \in Renders :
        (NavDone(r) /\ AllEligibleDated) =>
            LET entries == nav[r].entries
            IN  /\ Len(entries) = Cardinality(EligiblePages)
                /\ \A i \in EligiblePages :
                       \E k \in DOMAIN entries : entries[k].href = pages.items[i].url
                /\ \A j, k \in DOMAIN entries :
                       j < k => DateOrdinal(entries[j].dateTime)
                                    >= DateOrdinal(entries[k].dateTime)

\* C12 witness: the dates 2025-01-01, 2025-06-15, 2024-12-31 come back as
\* 2025-06-15, 2025-01-01, 2024-12-31.
C12_Witness ==
    \E r \in Renders :
        /\ NavDone(r)
        /\ Len(pages.items) = 3
        /\ EligiblePages = 1..3
        /\ AllEligibleDated
        /\ [i \in 1..3 |-> DateOrdinal(pages.items[i].exports.date)]
               = <<20250101, 20250615, 20241231>>
        /\ Len(nav[r].entries) = 3
        /\ [i \in 1..3 |-> DateOrdinal(nav[r].entries[i].dateTime)]
               = <<20250615, 20250101, 20241231>>

\* C13: every entry of the list Nav returns is a Document of the collection
\* whose url lies under /blog; a Document outside the prefix is in no entry.
C13_NavOnlyBlogPages ==
    \A r \in Renders :
        NavDone(r) =>
            /\ \A k \in DOMAIN nav[r].entries :
                   /\ UnderBlog(nav[r].entries[k].href)
                   /\ \E i \in DOMAIN pages.items :
                          pages.items[i].url = nav[r].entries[k].href
            /\ \A i \in DOMAIN pages.items :
                   ~UnderBlog(pages.items[i].url) =>
                       \A k \in DOMAIN nav[r].entries :
                           nav[r].entries[k].href # pages.items[i].url

\* C13 witness: a dated Document outside /blog is left out of a list that has
\* entries.
C13_Witness ==
    \E r \in Renders : \E i \in DOMAIN pages.items :
        /\ NavDone(r)
        /\ ~UnderBlog(pages.items[i].url)
        /\ pages.items[i].exports # Undefined
        /\ IsCalendarDate(pages.items[i].exports.date)
        /\ Len(nav[r].entries) = 2
        /\ \A k \in DOMAIN nav[r].entries :
               nav[r].entries[k].href # pages.items[i].url

CurrentEntries(r) ==
    { k \in DOMAIN nav[r].entries : nav[r].entries[k].ariaCurrent # Undefined }

\* C14: in the list Nav returns, the entries marked current are exactly those
\* with the current Document's url: one entry when the current Document is
\* eligible, none when it is filtered out.
C14_OneCurrentEntry ==
    \A r \in Renders :
        NavDone(r) =>
            /\ \A k \in DOMAIN nav[r].entries :
                   (k \in CurrentEntries(r))
                       <=> (nav[r].entries[k].href = currentPage[r].url)
            /\ Cardinality(CurrentEntries(r))
                   = IF UnderBlog(currentPage[r].url) THEN 1 ELSE 0

\* C14 witness: a list of three entries, the second of them the current one.
C14_Witness ==
    \E r \in Renders :
        /\ NavDone(r)
        /\ Len(nav[r].entries) = 3
        /\ CurrentEntries(r) = {2}

-----------------------------------------------------------------------------
(* The claims about what a render leaves alone *)

\* C15: no step of a render writes to what the render was given: the current
\* Documents, the collection and its Documents, and the document trees stay
\* as they were.
C15_InputsUnchanged ==
    [][currentPage' = currentPage /\ pages' = pages /\ children' = children]_vars

\* C15 witness: a finished render that went through a heading and a code
\* block, its Document still the one in the collection.
C15_Witness ==
    \E r \in Renders :
        /\ pc[r] = "done"
        /\ H1Nodes(r) # {}
        /\ CodeBlockNodes(r) # {}
        /\ pages.items[r] = currentPage[r]

-----------------------------------------------------------------------------
(* Two renders at once *)

ValidDate == Str(<<"2", "0", "2", "5", "-", "0", "7", "-", "2", "6">>)

Month13Date == Str(<<"2", "0", "2", "5", "-", "1", "3", "-", "0", "1">>)

\* The Documents of the two renders: distinct urls; one of each pair renders,
\* the first render's other Document fails in the head.
ParallelPages(r) ==
    IF r = 1
    THEN { p \in Pages :
             /\ p.url = Str(<<"/", "b", "l", "o", "g", "/", "a">>)
             /\ p.name = Str(<<>>)
             /\ \/ /\ p.exports # Undefined
                   /\ p.exports.date = ValidDate
                   /\ p.exports.title = Undefined
                   /\ p.exports.description = Undefined
                   /\ p.tableOfContents = Arr(<<TocEntry(Intro)>>)
                \/ /\ p.exports = Undefined
                   /\ p.tableOfContents = Arr(<<>>) }
    ELSE { p \in Pages :
             /\ p.url = Str(<<"/", "a">>)
             /\ p.name = Str(<<>>)
             /\ \/ /\ p.exports # Undefined
                   /\ p.exports.date = Month13Date
                   /\ p.exports.title = Undefined
                   /\ p.exports.description # Undefined
                   /\ p.tableOfContents = Undefined
                \/ /\ p.exports = Undefined
                   /\ p.tableOfContents = Arr(<<TocEntry(Intro)>>) }

ParallelNodes ==
    { n \in Nodes : n.kind # "CodeBlock" \/ n.props.lang = Str(<<"f", "o", "o">>) }

ParallelTrees == UNION { [1..n -> ParallelNodes] : n \in 0..MaxNodes }

InitParallel ==
    /\ currentPage \in { f \in [{1, 2} -> Pages] : \A r \in {1, 2} : f[r] \in ParallelPages(r) }
    /\ children \in [{1, 2} -> ParallelTrees]
    /\ pages = Arr([r \in {1, 2} |-> currentPage[r]])
    /\ nav = [r \in {1, 2} |-> NavPending]
    /\ pc = [r \in {1, 2} |-> "start"]
    /\ head = [r \in {1, 2} |-> <<>>]
    /\ body = [r \in {1, 2} |-> <<>>]
    /\ calls = [r \in {1, 2} |-> <<>>]
    /\ error = [r \in {1, 2} |-> NoError]

\* The steps of the two renders in any interleaving.
SpecParallel == InitParallel /\ [][Next]_vars

\* What a node renders to in a render of its Document alone.
SoloFragments(page, node) ==
    IF node.kind = "h1" THEN { H1Override(page, node.props) }
    ELSE IF node.kind = "CodeBlock"
    THEN { CodeBlockOverride(node.props, res.value) :
             res \in { o \in HighlightOutcomes(HighlightArgs(node.props).code,
                                               HighlightArgs(node.props).language) : o.ok } }
    ELSE { <<[tag |-> node.kind, props |-> node.props]>> }

\* C17: in any interleaving of two renders of distinct Documents, the head,
\* the body so far and the failure of each render are those of a render of
\* its own Document and tree alone.
C17_RendersIndependent ==
    \A r \in Renders :
        /\ pc[r] = "start" => head[r] = <<>> /\ body[r] = <<>> /\ error[r] = NoError
        /\ pc[r] # "start" =>
               LET h == HeadElements(currentPage[r])
               IN  IF h.ok THEN head[r] = h.value
                   ELSE pc[r] = "error" /\ error[r] = h.error /\ body[r] = <<>>
        /\ \A i \in DOMAIN body[r] :
               body[r][i] \in SoloFragments(currentPage[r], children[r][i])
        /\ \A k \in DOMAIN calls[r] :
               /\ children[r][calls[r][k].at].kind = "CodeBlock"
               /\ calls[r][k].code = children[r][calls[r][k].at].props.children

\* C17 witness: the second render has finished while the first is under way,
\* both with a heading rendered, for Documents with different dates.
C17_Witness ==
    /\ Renders = {1, 2}
    /\ pc[2] = "done"
    /\ pc[1] = "article"
    /\ \E i \in DOMAIN body[1] : children[1][i].kind = "h1"
    /\ H1Nodes(2) # {}
    /\ currentPage[1].url # currentPage[2].url
    /\ ExportsDate(currentPage[1]) # ExportsDate(currentPage[2])

-----------------------------------------------------------------------------
(* The claims about the highlighter as a function *)

\* The markup inserted for the block of a highlight call the render got past.
InsertedMarkup(r, k) == body[r][calls[r][k].at][1].props.children.html

\* C18: two highlight calls with the same source text and language tag use
\* the same grammar and insert the same markup, and a call whose tag names no
\* grammar of the registry uses the default grammar JS.
C18_HighlightDeterministic ==
    \A r \in Renders : \A j, k \in DOMAIN calls[r] :
        LET a == children[r][calls[r][j].at].props
            b == children[r][calls[r][k].at].props
        IN  /\ (a.children = b.children /\ a.lang = b.lang) =>
                   /\ calls[r][j].language = calls[r][k].language
                   /\ (calls[r][j].at \in DOMAIN body[r] /\ calls[r][k].at \in DOMAIN body[r]) =>
                          InsertedMarkup(r, j) = InsertedMarkup(r, k)
            /\ (a.lang # Undefined /\ ~KnownTag(a.lang)) =>
                   calls[r][j].language = Grammar(<<"J", "S">>)

\* The characters that delimit markup, and the entity that stands for each.
MarkupDelimiters == {"<", ">", "&"}

Entities == { EscapeChar(c) : c \in MarkupDelimiters }

EntityAt(text, i, e) ==
    /\ i + Len(e) - 1 <= Len(text)
    /\ SubSeq(text, i, i + Len(e) - 1) = e

\* No "<" or ">" in the text, and every "&" begins an entity.
NoRawDelimiter(text) ==
    \A i \in DOMAIN text :
        /\ text[i] \notin {"<", ">"}
        /\ text[i] = "&" => \E e \in Entities : EntityAt(text, i, e)

RECURSIVE SpanTexts(_)
SpanTexts(html) ==
    IF html = <<>> THEN <<>> ELSE Head(html).text \o SpanTexts(Tail(html))

Occurrences(text, e) == Cardinality({ i \in DOMAIN text : EntityAt(text, i, e) })

\* C19: in the markup inserted into the code element of every rendered code
\* block, no span text holds a raw "<", ">" or "&", and each such character
\* of the source text is there as its entity.
C19_CodeEscaped ==
    \A r \in Renders : \A i \in DOMAIN body[r] :
        children[r][i].kind = "CodeBlock" =>
            LET html == body[r][i][1].props.children.html
                src == children[r][i].props.children.val
            IN  /\ \A s \in DOMAIN html : NoRawDelimiter(html[s].text)
                /\ \A c \in MarkupDelimiters :
                       Occurrences(SpanTexts(html), EscapeChar(c))
                           = Occurrences(src, <<c>>)

\* C19 witness: a rendered code block whose source text holds "<", ">" and
\* "&", with the entity of "<" in its markup.
C19_Witness ==
    \E r \in Renders : \E i \in DOMAIN body[r] :
        /\ children[r][i].kind = "CodeBlock"
        /\ \A c \in MarkupDelimiters :
               \E j \in DOMAIN children[r][i].props.children.val :
                   children[r][i].props.children.val[j] = c
        /\ Occurrences(SpanTexts(body[r][i][1].props.children.html),
                       <<"&", "l", "t", ";">>) > 0

-----------------------------------------------------------------------------
(* Trees with nested nodes *)

Text(s) == [children |-> Str(s)]

Item(s) == [kind |-> "li", props |-> Text(s)]

List(items) == [kind |-> "ul", props |-> [children |-> Arr(items)]]

Paragraph == [kind |-> "p", props |-> Text(<<"t">>)]

Heading == [kind |-> "h1", props |-> [children |-> Intro]]

\* A paragraph, a heading, a code block, a list of two items, a quotation
\* holding a heading and a paragraph, and a quotation holding a list.
NestedNodes ==
    { Paragraph,
      Heading,
      [kind |-> "CodeBlock",
       props |-> [lang |-> Str(<<"j", "s">>), children |-> Str(<<"a", "<", "b">>)]],
      List(<<Item(<<"a">>), Item(<<"b">>)>>),
      [kind |-> "blockquote", props |-> [children |-> Arr(<<Heading, Paragraph>>)]],
      [kind |-> "blockquote",
       props |-> [children |-> Arr(<<List(<<Item(<<"b">>), Item(<<"a">>)>>), Paragraph>>)]] }

NestedTrees == UNION { [1..n -> NestedNodes] : n \in 0..MaxNodes }

NestedPages ==
    { p \in Pages :
        /\ p.url = Str(<<"/", "b", "l", "o", "g", "/", "a">>)
        /\ p.name = Str(<<>>)
        /\ p.tableOfContents = Arr(<<TocEntry(Intro)>>)
        /\ p.exports # Undefined
        /\ p.exports.title = Undefined
        /\ p.exports.description = Undefined }

InitNested ==
    /\ currentPage \in [{1} -> NestedPages]
    /\ children \in [{1} -> NestedTrees]
    /\ pages = Arr([r \in {1} |-> currentPage[r]])
    /\ nav = [r \in {1} |-> NavPending]
    /\ pc = [r \in {1} |-> "start"]
    /\ head = [r \in {1} |-> <<>>]
    /\ body = [r \in {1} |-> <<>>]
    /\ calls = [r \in {1} |-> <<>>]
    /\ error = [r \in {1} |-> NoError]

SpecNested == InitNested /\ [][Next]_vars

\* What stands in the place of a code block or a heading in a skeleton.
Replaced == [kind |-> "replaced"]

\* The skeleton of an input node: its kind, its text or the skeletons of the
\* nodes nested in it, in order; code blocks and headings are left out of the
\* comparison.
RECURSIVE InputSkeleton(_)
InputSkeleton(node) ==
    IF node.kind \in {"h1", "CodeBlock"} THEN Replaced
    ELSE IF node.props.children.type = "array"
    THEN [kind |-> node.kind,
          nested |-> [i \in DOMAIN node.props.children.items |->
                         InputSkeleton(node.props.children.items[i])]]
    ELSE [kind |-> node.kind, text |-> node.props.children.val]

\* The skeleton of what stands at one place of the composed page.
RECURSIVE OutputSkeleton(_)
OutputSkeleton(fragment) ==
    IF Len(fragment) # 1 \/ fragment[1].tag \in {"h1", "pre"} THEN Replaced
    ELSE IF fragment[1].props.children.type = "array"
    THEN [kind |-> fragment[1].tag,
          nested |-> [i \in DOMAIN fragment[1].props.children.items |->
                         OutputSkeleton(fragment[1].props.children.items[i])]]
    ELSE [kind |-> fragment[1].tag, text |-> fragment[1].props.children.val]

\* C20: every place of the body holds the node of the same place of the
\* input tree, and every node that is neither a code block nor a heading has
\* its kind, its text and the nodes nested in it in the input's order, at
\* every depth; a completed render has a place for every input node.
C20_StructurePreserved ==
    \A r \in Renders :
        /\ Len(body[r]) <= Len(children[r])
        /\ \A i \in DOMAIN body[r] :
               OutputSkeleton(body[r][i]) = InputSkeleton(children[r][i])
        /\ pc[r] = "done" => Len(body[r]) = Len(children[r])

\* C20 witness: a completed render of a tree with a list of two different
\* items nested in a quotation and, next to it, a top-level list.
C20_Witness ==
    \E r \in Renders :
        /\ pc[r] = "done"
        /\ Len(children[r]) = 2
        /\ children[r][1].kind = "blockquote"
        /\ children[r][1].props.children.items[1].kind = "ul"
        /\ children[r][2].kind = "ul"
        /\ body[r][1][1].props.children.items[1][1].props.children.items[2][1].tag = "li"

-----------------------------------------------------------------------------
(* The claims about the head and its independence of the collection *)

\* The tags of the code blocks of the tree all name a grammar, or are absent.
AllTagsResolve(r) ==
    \A i \in CodeBlockNodes(r) :
        children[r][i].props.lang = Undefined \/ KnownTag(children[r][i].props.lang)

\* C21: a render of a tree without a top-level heading has no date element in
\* its body, and does not fail unless the title lookup or a highlight call
\* does: the missing heading raises no error.
C21_NoHeadingNoDecoration ==
    \A r \in Renders :
        H1Nodes(r) = {} =>
            /\ TimeElements(r) = {}
            /\ (TitleLookup(currentPage[r]).ok /\ AllTagsResolve(r)) => pc[r] # "error"

\* C21 witness: a completed render of a non-empty tree without a heading,
\* for a Document with a date.
C21_Witness ==
    \E r \in Renders :
        /\ pc[r] = "done"
        /\ H1Nodes(r) = {}
        /\ Len(body[r]) = MaxNodes
        /\ IsCalendarDate(ExportsDate(currentPage[r]))

\* C22: once Layout has been called, a Document without a table of contents
\* has its head, in which the title tag and the social-card title tag carry
\* no title, and no TypeError is raised; a Document whose table of contents
\* is empty has neither head nor body, and its render has ended in the
\* TypeError of the title lookup.
C22_AbsentVersusEmptyOutline ==
    \A r \in Renders :
        pc[r] # "start" =>
            /\ currentPage[r].tableOfContents = Undefined =>
                   /\ head[r] # <<>>
                   /\ HeadWithTag(r, "title") # {}
                   /\ HeadMetas(r, "og:title") # {}
                   /\ \A i \in HeadWithTag(r, "title") : head[r][i].children = Undefined
                   /\ \A i \in HeadMetas(r, "og:title") : head[r][i].content = Undefined
                   /\ error[r] # TypeError("title")
            /\ currentPage[r].tableOfContents = Arr(<<>>) =>
                   /\ pc[r] = "error"
                   /\ error[r] = TypeError("title")
                   /\ head[r] = <<>>
                   /\ body[r] = <<>>

\* C22 witness: of two renders, the one whose Document has an empty table of
\* contents has failed and the one whose Document has none has completed.
C22_Witness ==
    /\ Renders = {1, 2}
    /\ currentPage[1].tableOfContents = Arr(<<>>)
    /\ pc[1] = "error"
    /\ currentPage[2].tableOfContents = Undefined
    /\ pc[2] = "done"
    /\ body[2] # <<>>

\* The value the one element of the head with this tag or key carries; the
\* head has exactly one such element.
OnlyOne(S) == Cardinality(S) = 1

TitleText(r) == head[r][CHOOSE i \in HeadWithTag(r, "title") : TRUE].children

MetaContent(r, key) == head[r][CHOOSE i \in HeadMetas(r, key) : TRUE].content

\* C23: a composed page has one title tag and one social-card title tag with
\* the same title, and one description tag and one social-card description
\* tag whose content is the Document's exports.description as it stands.
C23_CardMirrorsHead ==
    \A r \in Renders :
        Composed(r) =>
            /\ OnlyOne(HeadWithTag(r, "title"))
            /\ OnlyOne(HeadMetas(r, "og:title"))
            /\ OnlyOne(HeadMetas(r, "description"))
            /\ OnlyOne(HeadMetas(r, "og:description"))
            /\ TitleText(r) = MetaContent(r, "og:title")
            /\ MetaContent(r, "description") = ExportsDescription(currentPage[r])
            /\ MetaContent(r, "og:description") = ExportsDescription(currentPage[r])

\* C23 witness: a completed render of a Document with a description, an
\* exports.title and a first outline entry of another title.
C23_Witness ==
    \E r \in Renders :
        /\ pc[r] = "done"
        /\ ExportsDescription(currentPage[r]) # Undefined
        /\ ExportsTitle(currentPage[r]) # Undefined
        /\ TitleText(r) = Intro
        /\ ExportsTitle(currentPage[r]) # Intro
        /\ MetaContent(r, "og:description") # Undefined

\* The address the site gives a url.
SiteAddress(url) == Str(Origin \o url.val)

\* C24: a composed page has exactly one social-card url tag; its content is
\* the site origin followed by the url of the Document rendered, whatever
\* else the Document holds, and is the address of no other Document of the
\* collection.
C24_CardUrlIsOwnUrl ==
    \A r \in Renders :
        Composed(r) =>
            /\ OnlyOne(HeadMetas(r, "og:url"))
            /\ MetaContent(r, "og:url") = SiteAddress(currentPage[r].url)
            /\ \A q \in DOMAIN pages.items :
                   pages.items[q].url # currentPage[r].url =>
                       MetaContent(r, "og:url") # SiteAddress(pages.items[q].url)

\* C24 witness: two completed renders of Documents of one collection, one
\* with exports and one without, each with the address of its own url.
C24_Witness ==
    /\ Renders = {1, 2}
    /\ pc[1] = "done" /\ pc[2] = "done"
    /\ currentPage[1].exports # Undefined
    /\ currentPage[2].exports = Undefined
    /\ MetaContent(1, "og:url") = SiteAddress(Str(<<"/", "b", "l", "o", "g", "/", "a">>))
    /\ MetaContent(2, "og:url") = SiteAddress(Str(<<"/", "a">>))

-----------------------------------------------------------------------------
(* A render under any collection *)

\* The collections: up to MaxPages Documents in any order, which may or may
\* not hold the Document rendered, or hold another Document under its url.
AnyCollections ==
    { Arr(items) :
        items \in UNION { [1..n -> ParallelPages(1) \cup ParallelPages(2)] : n \in 0..MaxPages } }

InitAnyCollection ==
    /\ currentPage \in [{1} -> ParallelPages(1)]
    /\ children \in [{1} -> ParallelTrees]
    /\ pages \in AnyCollections
    /\ nav = [r \in {1} |-> NavPending]
    /\ pc = [r \in {1} |-> "start"]
    /\ head = [r \in {1} |-> <<>>]
    /\ body = [r \in {1} |-> <<>>]
    /\ calls = [r \in {1} |-> <<>>]
    /\ error = [r \in {1} |-> NoError]

SpecAnyCollection == InitAnyCollection /\ [][Next]_vars

\* The page structures Layout can return for a Document and a tree: the head
\* and, node by node, the body.  The collection is no parameter of it.
PageStructures(page, tree) ==
    { [head |-> HeadElements(page).value, body |-> b] :
        b \in { f \in [DOMAIN tree -> UNION { SoloFragments(page, tree[i]) : i \in DOMAIN tree }] :
                  \A i \in DOMAIN tree : f[i] \in SoloFragments(page, tree[i]) } }

\* C25: under every collection, the page structure of a completed render is
\* the one the Document and the tree alone determine, and a render fails in the
\* head under every collection or under none: renders that differ only in
\* the collection return the same page structure.
C25_CollectionIrrelevant ==
    \A r \in Renders :
        /\ pc[r] = "done" =>
               /\ Cardinality(PageStructures(currentPage[r], children[r])) = 1
               /\ [head |-> head[r], body |-> body[r]]
                      \in PageStructures(currentPage[r], children[r])
        /\ pc[r] # "start" =>
               (head[r] = <<>>) = ~HeadElements(currentPage[r]).ok

\* C25 witness: a completed render under a collection that does not hold the
\* Document rendered but holds another Document under the same url.
C25_Witness ==
    \E r \in Renders :
        /\ pc[r] = "done"
        /\ body[r] # <<>>
        /\ \A q \in DOMAIN pages.items : pages.items[q] # currentPage[r]
        /\ \E q \in DOMAIN pages.items : pages.items[q].url = currentPage[r].url

=============================================================================
